---------------------------- MODULE Spec2Model ----------------------------
(***************************************************************************)
(* Model of acvm/src/lib.rs: the partial witness generator                 *)
(* (PartialWitnessGenerator::solve), the gate handlers it dispatches to    *)
(* and the Language gate-support descriptor.                               *)
(*                                                                         *)
(* The prime field of acir::FieldElement is scaled down to the prime       *)
(* Modulus; every conversion between field elements, byte strings and      *)
(* big integers is modelled by what it computes.                           *)
(***************************************************************************)
EXTENDS Integers, Sequences, FiniteSets, TLC

(***************************************************************************)
(* Bounds of the model.                                                    *)
(***************************************************************************)
\* Longest gate list handed to solve.
MaxGates == 2

\* Number of nested solve frames the call stack holds: solve calls itself
\* once per pass (lib.rs:258); one more frame aborts the process.
StackLimit == 4

\* Largest width of a PLONKCSat language.
MaxWidth == 5

(***************************************************************************)
(* acir::FieldElement and num_bigint::BigUint.                             *)
(***************************************************************************)
\* The field modulus (a small prime standing for the BN254 scalar field).
Modulus == 257

FieldElements == 0 .. (Modulus - 1)

\* Width of FieldElement::to_bytes(): the fixed number of bytes that holds
\* every field element (32 for the 254-bit field).
NumBytes == CHOOSE n \in 1 .. 4 : 256 ^ n >= Modulus /\ 256 ^ (n - 1) < Modulus

FieldAdd(x, y) == (x + y) % Modulus

FieldMul(x, y) == (x * y) % Modulus

\* FieldElement::is_zero
IsZero(x) == x = 0

\* FieldElement::inverse.  The result at zero is left to the field
\* implementation: any of these values.
InverseAtZero == {0, 1}

InverseOf(x) ==
    IF x = 0 THEN InverseAtZero
    ELSE {y \in FieldElements : FieldMul(x, y) = 1}

\* FieldElement::num_bits: the number of bits after the leading zeroes.
RECURSIVE NumBits(_)
NumBits(x) == IF x = 0 THEN 0 ELSE 1 + NumBits(x \div 2)

\* FieldElement::to_bytes: big-endian, fixed width.
ToBytesBE(x) == [i \in 1 .. NumBytes |-> (x \div (256 ^ (NumBytes - i))) % 256]

\* BigUint::from_bytes_be
RECURSIVE FromBytesBE(_)
FromBytesBE(bytes) ==
    IF bytes = <<>> THEN 0
    ELSE FromBytesBE(SubSeq(bytes, 1, Len(bytes) - 1)) * 256 + bytes[Len(bytes)]

\* BigUint::to_bytes_be: big-endian, no leading zero byte (zero is <<0>>).
RECURSIVE BigUintToBytesBE(_)
BigUintToBytesBE(n) ==
    IF n < 256 THEN <<n>>
    ELSE Append(BigUintToBytesBE(n \div 256), n % 256)

\* FieldElement::from_be_bytes_reduce
FromBeBytesReduce(bytes) == FromBytesBE(bytes) % Modulus

\* BigUint::from_bytes_be(&val.to_bytes())
ToBigUint(x) == FromBytesBE(ToBytesBE(x))

\* FieldElement::from_be_bytes_reduce(&n.to_bytes_be())
FromBigUint(n) == FromBeBytesReduce(BigUintToBytesBE(n))

\* BigUint::bit
Bit(n, j) == (n \div (2 ^ j)) % 2

\* Vec::reverse
Reverse(s) == [i \in 1 .. Len(s) |-> s[Len(s) + 1 - i]]

\* Bitwise operators on the low num_bits bits (FieldElement::and / xor).
RECURSIVE BitwiseAnd(_, _, _)
BitwiseAnd(x, y, num_bits) ==
    IF num_bits = 0 THEN 0
    ELSE (IF x % 2 = 1 /\ y % 2 = 1 THEN 1 ELSE 0)
         + 2 * BitwiseAnd(x \div 2, y \div 2, num_bits - 1)

RECURSIVE BitwiseXor(_, _, _)
BitwiseXor(x, y, num_bits) ==
    IF num_bits = 0 THEN 0
    ELSE (IF x % 2 # y % 2 THEN 1 ELSE 0)
         + 2 * BitwiseXor(x \div 2, y \div 2, num_bits - 1)

\* BigUint bitwise and (the & operator).
RECURSIVE BigAnd(_, _)
BigAnd(x, y) ==
    IF x = 0 \/ y = 0 THEN 0
    ELSE (IF x % 2 = 1 /\ y % 2 = 1 THEN 1 ELSE 0) + 2 * BigAnd(x \div 2, y \div 2)

(***************************************************************************)
(* The partial witness: BTreeMap<Witness, FieldElement>, a function from   *)
(* the assigned witnesses to their values.  Option<T> is <<>> (None) or    *)
(* <<v>> (Some(v)).                                                        *)
(***************************************************************************)
None == <<>>

Some(v) == <<v>>

\* BTreeMap::get
Get(w, k) == IF k \in DOMAIN w THEN Some(w[k]) ELSE None

\* BTreeMap::insert: the new value replaces the one the key held.
Insert(w, k, v) == [x \in (DOMAIN w) \cup {k} |-> IF x = k THEN v ELSE w[x]]

(***************************************************************************)
(* get_value: the value of an Expression under the partial witness, None   *)
(* as soon as one of its witnesses is unassigned.                          *)
(***************************************************************************)
RECURSIVE LinearSum(_, _, _)
LinearSum(terms, w, i) ==
    IF i > Len(terms) THEN 0
    ELSE FieldAdd(FieldMul(terms[i][1], w[terms[i][2]]), LinearSum(terms, w, i + 1))

RECURSIVE MulSum(_, _, _)
MulSum(terms, w, i) ==
    IF i > Len(terms) THEN 0
    ELSE FieldAdd(FieldMul(FieldMul(terms[i][1], w[terms[i][2]]), w[terms[i][3]]),
                  MulSum(terms, w, i + 1))

GetValue(a, w) ==
    IF \E i \in 1 .. Len(a.linear_combinations) :
           a.linear_combinations[i][2] \notin DOMAIN w
    THEN None
    ELSE IF \E i \in 1 .. Len(a.mul_terms) :
                a.mul_terms[i][2] \notin DOMAIN w \/ a.mul_terms[i][3] \notin DOMAIN w
    THEN None
    ELSE Some(FieldAdd(FieldAdd(a.q_c, LinearSum(a.linear_combinations, w, 1)),
                       MulSum(a.mul_terms, w, 1)))

\* Expression::one
ExpressionOne == [q_c |-> 1, linear_combinations |-> <<>>, mul_terms |-> <<>>]

(***************************************************************************)
(* The outcome of one arm of the match in solve: res is "Resolved"         *)
(* (unsolved = false), "Skip" (unsolved = true), the GateResolution the    *)
(* arm returns from solve with, or "Panic"; w is the witness the arm       *)
(* leaves, writes the inserts it made in order, backend whether it called  *)
(* solve_gadget_call.                                                      *)
(***************************************************************************)
Outcome(res, w, writes, backend) ==
    [res |-> res, w |-> w, writes |-> writes, backend |-> backend]

\* initial_witness.insert(k, v) applied to an outcome under construction.
Write(o, k, v) ==
    [o EXCEPT !.w = Insert(o.w, k, v), !.writes = Append(o.writes, <<k, v>>)]

HardFailures == {"UnsatisfiedConstrain", "UnsupportedOpcode", "UnknownError"}

\* ArithmeticSolver::solve (pwg/arithmetic.rs): the expression is evaluated;
\* zero is Resolved, non-zero UnsatisfiedConstrain, not evaluable Skip.
ArithmeticSolver_solve(w, arith) ==
    LET val == GetValue(arith, w)
    IN  IF val = None THEN "Skip"
        ELSE IF IsZero(val[1]) THEN "Resolved"
        ELSE "UnsatisfiedConstrain"

\* The Arithmetic arm with the two classifications exchanged: a satisfied
\* gate is pushed as unsolved, a gate not yet evaluable is taken as solved.
SolveArithmeticExchanged(w, gate) ==
    LET result == ArithmeticSolver_solve(w, gate.arith)
    IN  {Outcome(IF result = "Resolved" THEN "Skip"
                 ELSE IF result = "Skip" THEN "Resolved" ELSE result,
                 w, <<>>, FALSE)}

\* Gate::Arithmetic arm.
SolveArithmetic(w, gate) ==
    LET result == ArithmeticSolver_solve(w, gate.arith)
    IN  {Outcome(result, w, <<>>, FALSE)}

\* OPCODE::RANGE.definition().input_size.fixed_size()
RangeInputSize == 1

\* The RANGE arm with the comparison off by one (>= for >).
SolveRangeOffByOne(w, gc) ==
    IF Len(gc.inputs) # RangeInputSize
    THEN {Outcome("UnknownError", w, <<>>, FALSE)}
    ELSE LET input == gc.inputs[1]
             w_value == Get(w, input.witness)
         IN  IF w_value # None
             THEN IF NumBits(w_value[1]) >= input.num_bits
                  THEN {Outcome("UnsatisfiedConstrain", w, <<>>, FALSE)}
                  ELSE {Outcome("Resolved", w, <<>>, FALSE)}
             ELSE {Outcome("Skip", w, <<>>, FALSE)}

\* The RANGE arm assigning zero to an input it finds unassigned.
SolveRangeDefaulting(w, gc) ==
    IF Len(gc.inputs) # RangeInputSize
    THEN {Outcome("UnknownError", w, <<>>, FALSE)}
    ELSE LET input == gc.inputs[1]
             w_value == Get(w, input.witness)
         IN  IF w_value # None
             THEN IF NumBits(w_value[1]) > input.num_bits
                  THEN {Outcome("UnsatisfiedConstrain", w, <<>>, FALSE)}
                  ELSE {Outcome("Resolved", w, <<>>, FALSE)}
             ELSE {Write(Outcome("Skip", w, <<>>, FALSE), input.witness, 0)}

\* The RANGE arm looking up its first input before it checks the number of
\* inputs.
SolveRangeLateArityCheck(w, gc) ==
    LET input == gc.inputs[1]
        w_value == Get(w, input.witness)
    IN  IF w_value = None THEN {Outcome("Skip", w, <<>>, FALSE)}
        ELSE IF Len(gc.inputs) # RangeInputSize
        THEN {Outcome("UnknownError", w, <<>>, FALSE)}
        ELSE IF NumBits(w_value[1]) > input.num_bits
        THEN {Outcome("UnsatisfiedConstrain", w, <<>>, FALSE)}
        ELSE {Outcome("Resolved", w, <<>>, FALSE)}

\* Gate::GadgetCall arm, gc.name == OPCODE::RANGE.
SolveRange(w, gc) ==
    IF Len(gc.inputs) # RangeInputSize
    THEN {Outcome("UnknownError", w, <<>>, FALSE)}
    ELSE LET input == gc.inputs[1]
             w_value == Get(w, input.witness)
         IN  IF w_value # None
             THEN IF NumBits(w_value[1]) > input.num_bits
                  THEN {Outcome("UnsatisfiedConstrain", w, <<>>, FALSE)}
                  ELSE {Outcome("Resolved", w, <<>>, FALSE)}
             ELSE {Outcome("Skip", w, <<>>, FALSE)}

\* LogicSolver::solve_and_gate / solve_xor_gate (pwg/logic.rs): with both
\* inputs assigned the result over the declared bit width is assigned to the
\* output and the gate is solved (TRUE); an output already holding another
\* value is an inconsistency, which a bool can only report as not solved.
LogicSolver_solve(w, gc, is_xor) ==
    LET l == Get(w, gc.inputs[1].witness)
        r == Get(w, gc.inputs[2].witness)
    IN  IF l = None \/ r = None THEN [solved |-> FALSE, w |-> w, writes |-> <<>>]
        ELSE LET num_bits == gc.inputs[1].num_bits
                 v == IF is_xor THEN BitwiseXor(l[1], r[1], num_bits)
                      ELSE BitwiseAnd(l[1], r[1], num_bits)
                 out == gc.outputs[1]
             IN  IF out \in DOMAIN w /\ w[out] # v
                 THEN [solved |-> FALSE, w |-> w, writes |-> <<>>]
                 ELSE [solved |-> TRUE, w |-> Insert(w, out, v),
                       writes |-> <<<<out, v>>>>]

\* Gate::GadgetCall arms, gc.name == OPCODE::AND and OPCODE::XOR.
SolveLogic(w, gc) ==
    LET s == LogicSolver_solve(w, gc, gc.name = "XOR")
    IN  {Outcome(IF ~s.solved THEN "Skip" ELSE "Resolved", s.w, s.writes, FALSE)}

\* Values a backend may assign to an output of a gadget call.
BackendValues == {0, 5}

RECURSIVE BackendWrites(_, _, _)
BackendWrites(o, outputs, i) ==
    IF i > Len(outputs) THEN {o}
    ELSE UNION {BackendWrites(Write(o, outputs[i], v), outputs, i + 1) :
                    v \in BackendValues}

\* solve_gadget_call: the backend's routine, declared without a body.  It
\* either reports the opcode (Err(op)) or assigns the outputs (Ok(())).
solve_gadget_call(w, gc) ==
    {Outcome("UnsupportedOpcode", w, <<>>, TRUE)}
        \cup BackendWrites(Outcome("Resolved", w, <<>>, TRUE), gc.outputs, 1)

\* The gadget arm without the scan of the inputs.
SolveGadgetCallUnchecked(w, gc) == solve_gadget_call(w, gc)

\* Gate::GadgetCall arm, any other opcode.
SolveGadgetCall(w, gc) ==
    LET unsolvable == \E i \in 1 .. Len(gc.inputs) : gc.inputs[i].witness \notin DOMAIN w
    IN  IF unsolvable THEN {Outcome("Skip", w, <<>>, FALSE)}
        ELSE solve_gadget_call(w, gc)

\* Directive::Invert
SolveInvert(w, d) ==
    LET val == Get(w, d.x)
    IN  IF val = None THEN {Outcome("Skip", w, <<>>, FALSE)}
        ELSE {Write(Outcome("Resolved", w, <<>>, FALSE), d.result, inverse) :
                  inverse \in InverseOf(val[1])}

\* Quotient writing q = 0 and r = 0 when its predicate is not evaluable.
SolveQuotientEagerWrite(w, d) ==
    LET val_a == GetValue(d.a, w)
        val_b == GetValue(d.b, w)
    IN  IF val_a = None \/ val_b = None THEN {Outcome("Skip", w, <<>>, FALSE)}
        ELSE LET int_a == ToBigUint(val_a[1])
                 int_b == ToBigUint(val_b[1])
                 default == ExpressionOne
                 pred == IF d.predicate = None THEN default ELSE d.predicate[1]
                 pred_value == GetValue(pred, w)
             IN  IF pred_value = None
                 THEN {Write(Write(Outcome("Skip", w, <<>>, FALSE),
                                   d.q, FromBigUint(0)),
                             d.r, FromBigUint(0))}
                 ELSE IF ~IsZero(pred_value[1]) /\ int_b = 0
                 THEN {Outcome("Panic", w, <<>>, FALSE)}
                 ELSE LET int_r == IF IsZero(pred_value[1]) THEN 0 ELSE int_a % int_b
                          int_q == IF IsZero(pred_value[1]) THEN 0 ELSE int_a \div int_b
                      IN  {Write(Write(Outcome("Resolved", w, <<>>, FALSE),
                                       d.q, FromBigUint(int_q)),
                                 d.r, FromBigUint(int_r))}

\* Directive::Quotient.  BigUint division by zero panics.
SolveQuotient(w, d) ==
    LET val_a == GetValue(d.a, w)
        val_b == GetValue(d.b, w)
    IN  IF val_a = None \/ val_b = None THEN {Outcome("Skip", w, <<>>, FALSE)}
        ELSE LET int_a == ToBigUint(val_a[1])
                 int_b == ToBigUint(val_b[1])
                 default == ExpressionOne
                 pred == IF d.predicate = None THEN default ELSE d.predicate[1]
                 pred_value == GetValue(pred, w)
             IN  IF pred_value = None THEN {Outcome("Skip", w, <<>>, FALSE)}
                 ELSE IF ~IsZero(pred_value[1]) /\ int_b = 0
                 THEN {Outcome("Panic", w, <<>>, FALSE)}
                 ELSE LET int_r == IF IsZero(pred_value[1]) THEN 0 ELSE int_a % int_b
                          int_q == IF IsZero(pred_value[1]) THEN 0 ELSE int_a \div int_b
                      IN  {Write(Write(Outcome("Resolved", w, <<>>, FALSE),
                                       d.q, FromBigUint(int_q)),
                                 d.r, FromBigUint(int_r))}

\* Truncate without the division of the high part by 2^bit_size.
SolveTruncateNoDivision(w, d) ==
    LET val_a == Get(w, d.a)
    IN  IF val_a = None THEN {Outcome("Skip", w, <<>>, FALSE)}
        ELSE LET pow == 2 ^ d.bit_size
                 int_a == ToBigUint(val_a[1])
                 int_b == int_a % pow
                 int_c == int_a - int_b
             IN  {Write(Write(Outcome("Resolved", w, <<>>, FALSE),
                              d.b, FromBigUint(int_b)),
                        d.c, FromBigUint(int_c))}

\* Directive::Truncate
SolveTruncate(w, d) ==
    LET val_a == Get(w, d.a)
    IN  IF val_a = None THEN {Outcome("Skip", w, <<>>, FALSE)}
        ELSE LET pow == 2 ^ d.bit_size
                 int_a == ToBigUint(val_a[1])
                 int_b == int_a % pow
                 int_c == (int_a - int_b) \div pow
             IN  {Write(Write(Outcome("Resolved", w, <<>>, FALSE),
                              d.b, FromBigUint(int_b)),
                        d.c, FromBigUint(int_c))}

\* The loop of Split inserting every bit, occupied entry or not.
RECURSIVE SplitLoopOverwriting(_, _, _, _)
SplitLoopOverwriting(o, d, a_big, i) ==
    IF i >= d.bit_size THEN o
    ELSE LET j == i
             v == IF Bit(a_big, j) = 1 THEN 1 ELSE 0
         IN  IF j + 1 > Len(d.b) THEN [o EXCEPT !.res = "Panic"]
             ELSE SplitLoopOverwriting(Write(o, d.b[j + 1], v), d, a_big, i + 1)

\* The loop of Directive::Split from bit i on: each bit is inserted into a
\* vacant entry and compared with an occupied one.
RECURSIVE SplitLoop(_, _, _, _)
SplitLoop(o, d, a_big, i) ==
    IF i >= d.bit_size THEN o
    ELSE LET j == i
             v == IF Bit(a_big, j) = 1 THEN 1 ELSE 0
         IN  IF j + 1 > Len(d.b) THEN [o EXCEPT !.res = "Panic"]
             ELSE IF d.b[j + 1] \notin DOMAIN o.w
             THEN SplitLoop(Write(o, d.b[j + 1], v), d, a_big, i + 1)
             ELSE IF o.w[d.b[j + 1]] # v
             THEN [o EXCEPT !.res = "UnsatisfiedConstrain"]
             ELSE SplitLoop(o, d, a_big, i + 1)

\* Directive::Split
SolveSplit(w, d) ==
    LET val_a == GetValue(d.a, w)
    IN  IF val_a = None THEN {Outcome("Skip", w, <<>>, FALSE)}
        ELSE {SplitLoop(Outcome("Resolved", w, <<>>, FALSE), d, ToBigUint(val_a[1]), 0)}

\* The loop of Directive::ToBytes from byte i on.
RECURSIVE ToBytesLoop(_, _, _, _)
ToBytesLoop(o, d, a_bytes, i) ==
    IF i >= d.byte_size THEN o
    ELSE LET i_usize == i
         IN  IF i_usize + 1 > Len(a_bytes) \/ i_usize + 1 > Len(d.b)
             THEN [o EXCEPT !.res = "Panic"]
             ELSE LET v == FromBeBytesReduce(<<a_bytes[i_usize + 1]>>)
                  IN  IF d.b[i_usize + 1] \notin DOMAIN o.w
                      THEN ToBytesLoop(Write(o, d.b[i_usize + 1], v), d, a_bytes, i + 1)
                      ELSE IF o.w[d.b[i_usize + 1]] # v
                      THEN [o EXCEPT !.res = "UnsatisfiedConstrain"]
                      ELSE ToBytesLoop(o, d, a_bytes, i + 1)

\* ToBytes without the reversal of the big-endian bytes.
SolveToBytesNotReversed(w, d) ==
    LET val_a == GetValue(d.a, w)
    IN  IF val_a = None THEN {Outcome("Skip", w, <<>>, FALSE)}
        ELSE LET a_bytes == ToBytesBE(val_a[1])
             IN  {ToBytesLoop(Outcome("Resolved", w, <<>>, FALSE), d, a_bytes, 0)}

\* Directive::ToBytes
SolveToBytes(w, d) ==
    LET val_a == GetValue(d.a, w)
    IN  IF val_a = None THEN {Outcome("Skip", w, <<>>, FALSE)}
        ELSE LET a_bytes == Reverse(ToBytesBE(val_a[1]))
             IN  {ToBytesLoop(Outcome("Resolved", w, <<>>, FALSE), d, a_bytes, 0)}

\* Directive::Oddrange.  bit_size - 1 is a u32 subtraction: at bit_size = 0
\* it panics where overflow is checked; where it wraps, pow is
\* 2^(2^32 - 1), above every field element, so the range test passes and
\* bb = 0.
SolveOddrange(w, d) ==
    LET val_a == Get(w, d.a)
    IN  IF val_a = None THEN {Outcome("Skip", w, <<>>, FALSE)}
        ELSE LET int_a == ToBigUint(val_a[1])
             IN  IF d.bit_size = 0
                 THEN {Outcome("Panic", w, <<>>, FALSE),
                       Write(Write(Outcome("Resolved", w, <<>>, FALSE),
                                   d.b, FromBigUint(0)),
                             d.r, FromBigUint(int_a))}
                 ELSE LET pow == 2 ^ (d.bit_size - 1)
                      IN  IF int_a >= pow * 2
                          THEN {Outcome("UnsatisfiedConstrain", w, <<>>, FALSE)}
                          ELSE LET bb == BigAnd(int_a, pow)
                                   int_r == int_a - bb
                                   int_b == bb \div (2 ^ (d.bit_size - 1))
                               IN  {Write(Write(Outcome("Resolved", w, <<>>, FALSE),
                                                d.b, FromBigUint(int_b)),
                                          d.r, FromBigUint(int_r))}

(***************************************************************************)
(* The inputs of solve: gate lists over a catalogue of gates on three      *)
(* witnesses, and partial witnesses over a few values.                     *)
(***************************************************************************)
Witnesses == {1, 2, 3}

\* Values the caller may have assigned to witness k.
InitialValues(k) == IF k = 1 THEN {1, 3, 7, 256} ELSE {3, 7}

Neg(x) == (Modulus - x) % Modulus

Expr(q_c, linear, mul) ==
    [q_c |-> q_c, linear_combinations |-> linear, mul_terms |-> mul]

Arithmetic(arith) == [kind |-> "Arithmetic", arith |-> arith]

GadgetCall(name, inputs, outputs) ==
    [kind |-> "GadgetCall", name |-> name, inputs |-> inputs, outputs |-> outputs]

GadgetInput(witness, num_bits) == [witness |-> witness, num_bits |-> num_bits]

\* w1 + w2 - 10 = 0
GateSum == Arithmetic(Expr(Neg(10), <<<<1, 1>>, <<1, 2>>>>, <<>>))

\* w1 * w1 - 9 = 0
GateSquare == Arithmetic(Expr(Neg(9), <<>>, <<<<1, 1, 1>>>>))

\* w1 - w2 = 0
GateEqual == Arithmetic(Expr(0, <<<<1, 1>>, <<Neg(1), 2>>>>, <<>>))

GateRange == GadgetCall("RANGE", <<GadgetInput(1, 2)>>, <<>>)

GateRangeArity == GadgetCall("RANGE", <<GadgetInput(1, 2), GadgetInput(2, 2)>>, <<>>)

GateAnd == GadgetCall("AND", <<GadgetInput(1, 2), GadgetInput(2, 2)>>, <<3>>)

GateXor == GadgetCall("XOR", <<GadgetInput(1, 2), GadgetInput(2, 2)>>, <<3>>)

GateSha == GadgetCall("SHA256", <<GadgetInput(1, 8), GadgetInput(2, 8)>>, <<3>>)

GateInvert == [kind |-> "Directive", directive |-> "Invert", x |-> 1, result |-> 2]

\* q = (w1 + 4) div 1, r = (w1 + 4) mod 1
GateQuotient ==
    [kind |-> "Directive", directive |-> "Quotient",
     a |-> Expr(4, <<<<1, 1>>>>, <<>>), b |-> Expr(1, <<>>, <<>>),
     q |-> 2, r |-> 3, predicate |-> None]

GateTruncate ==
    [kind |-> "Directive", directive |-> "Truncate", a |-> 1, b |-> 2, c |-> 3,
     bit_size |-> 1]

GateTruncateByte ==
    [kind |-> "Directive", directive |-> "Truncate", a |-> 1, b |-> 3, c |-> 2,
     bit_size |-> 8]

GateSplit ==
    [kind |-> "Directive", directive |-> "Split", a |-> Expr(0, <<<<1, 1>>>>, <<>>),
     b |-> <<2, 3>>, bit_size |-> 2]

GateToBytes ==
    [kind |-> "Directive", directive |-> "ToBytes", a |-> Expr(0, <<<<1, 1>>>>, <<>>),
     b |-> <<2, 3>>, byte_size |-> 2]

GateOddrange ==
    [kind |-> "Directive", directive |-> "Oddrange", a |-> 1, b |-> 2, r |-> 3,
     bit_size |-> 2]

\* bit_size = 0: the directive computes bit_size - 1 on a u32.
GateOddrangeZero ==
    [kind |-> "Directive", directive |-> "Oddrange", a |-> 1, b |-> 2, r |-> 3,
     bit_size |-> 0]

\* q = w1 div (w2 - 3), r = w1 mod (w2 - 3) under the predicate w3 - 3: the
\* divisor is zero at w2 = 3 and the predicate is zero at w3 = 3.
GateQuotientPredicate ==
    [kind |-> "Directive", directive |-> "Quotient",
     a |-> Expr(0, <<<<1, 1>>>>, <<>>), b |-> Expr(Neg(3), <<<<1, 2>>>>, <<>>),
     q |-> 2, r |-> 3, predicate |-> Some(Expr(Neg(3), <<<<1, 3>>>>, <<>>))]

GateCatalogue ==
    {GateSum, GateSquare, GateEqual, GateRange, GateRangeArity, GateAnd, GateXor, GateSha,
     GateInvert, GateQuotient, GateTruncate, GateTruncateByte, GateSplit, GateToBytes, GateOddrange,
     GateOddrangeZero, GateQuotientPredicate}

GateLists == UNION {[1 .. n -> GateCatalogue] : n \in 0 .. MaxGates}

PartialWitnesses ==
    UNION {{w \in [D -> UNION {InitialValues(k) : k \in Witnesses}] : \A k \in D : w[k] \in InitialValues(k)} :
               D \in SUBSET Witnesses}

\* The match on &gate in solve: the arm that handles the gate.
SolveGate(w, gate) ==
    CASE gate.kind = "Arithmetic" -> SolveArithmetic(w, gate)
      [] gate.kind = "GadgetCall" /\ gate.name = "RANGE" -> SolveRange(w, gate)
      [] gate.kind = "GadgetCall" /\ gate.name \in {"AND", "XOR"} -> SolveLogic(w, gate)
      [] gate.kind = "GadgetCall" /\ gate.name \notin {"RANGE", "AND", "XOR"} ->
             SolveGadgetCall(w, gate)
      [] gate.kind = "Directive" /\ gate.directive = "Invert" -> SolveInvert(w, gate)
      [] gate.kind = "Directive" /\ gate.directive = "Quotient" -> SolveQuotient(w, gate)
      [] gate.kind = "Directive" /\ gate.directive = "Truncate" -> SolveTruncate(w, gate)
      [] gate.kind = "Directive" /\ gate.directive = "Split" -> SolveSplit(w, gate)
      [] gate.kind = "Directive" /\ gate.directive = "ToBytes" -> SolveToBytes(w, gate)
      [] gate.kind = "Directive" /\ gate.directive = "Oddrange" -> SolveOddrange(w, gate)

(***************************************************************************)
(* The state of one call of solve by a caller.                             *)
(***************************************************************************)
VARIABLES
    circuit,          \* the gate list the caller passed
    caller_witness,   \* the witness map as the caller passed it
    initial_witness,  \* the witness map, mutated in place
    gates,            \* the gate list of the current pass (frame)
    idx,              \* position of the for loop in gates, from 1
    unsolved_gates,   \* the gates of this pass pushed as unsolved
    depth,            \* number of solve frames on the call stack
    status,           \* "Running", or what solve returned / how it ended
    last,             \* the latest gate evaluation (res "None" before any)
    descriptor        \* the latest call on a Language (call "None" before any)

vars == <<circuit, caller_witness, initial_witness, gates, idx, unsolved_gates,
          depth, status, last, descriptor>>

Init ==
    /\ circuit \in GateLists
    /\ caller_witness \in PartialWitnesses
    /\ initial_witness = caller_witness
    /\ gates = circuit
    /\ idx = 1
    /\ unsolved_gates = <<>>
    /\ depth = 1
    /\ status = "Running"
    /\ last = [res |-> "None"]
    /\ descriptor = [call |-> "None"]

\* if gates.is_empty() { return GateResolution::Resolved; }
ReturnResolved ==
    /\ status = "Running"
    /\ gates = <<>>
    /\ status' = "Resolved"
    /\ UNCHANGED <<circuit, caller_witness, initial_witness, gates, idx,
                   unsolved_gates, depth, last, descriptor>>

InLoop == status = "Running" /\ gates # <<>> /\ idx <= Len(gates)

\* Iterate with a hard failure treated like Skip: the gate is pushed and the
\* loop goes on.
IterateIgnoringFailure(gate, o) ==
    /\ initial_witness' = o.w
    /\ last' = [gate |-> gate, before |-> initial_witness, res |-> o.res,
                writes |-> o.writes, backend |-> o.backend, after |-> o.w]
    /\ idx' = idx + 1
    /\ unsolved_gates' = IF o.res = "Resolved" THEN unsolved_gates
                         ELSE Append(unsolved_gates, gate)
    /\ UNCHANGED <<circuit, caller_witness, gates, depth, status, descriptor>>

\* One iteration of `for gate in gates.into_iter()`: the arm's outcome o
\* either sets unsolved (pushing the gate when true) or returns from solve.
Iterate(gate, o) ==
    /\ initial_witness' = o.w
    /\ last' = [gate |-> gate, before |-> initial_witness, res |-> o.res,
                writes |-> o.writes, backend |-> o.backend, after |-> o.w]
    /\ IF o.res = "Resolved"
       THEN /\ idx' = idx + 1
            /\ UNCHANGED <<unsolved_gates, status>>
       ELSE IF o.res = "Skip"
       THEN /\ idx' = idx + 1
            /\ unsolved_gates' = Append(unsolved_gates, gate)
            /\ UNCHANGED status
       ELSE /\ status' = o.res
            /\ UNCHANGED <<idx, unsolved_gates>>
    /\ UNCHANGED <<circuit, caller_witness, gates, depth, descriptor>>

IsDirective(gate, name) == gate.kind = "Directive" /\ gate.directive = name

IsGadget(gate) == gate.kind = "GadgetCall"

EvalArithmetic ==
    /\ InLoop
    /\ gates[idx].kind = "Arithmetic"
    /\ \E o \in SolveArithmetic(initial_witness, gates[idx]) : Iterate(gates[idx], o)

EvalRange ==
    /\ InLoop
    /\ IsGadget(gates[idx]) /\ gates[idx].name = "RANGE"
    /\ \E o \in SolveRange(initial_witness, gates[idx]) : Iterate(gates[idx], o)

EvalAnd ==
    /\ InLoop
    /\ IsGadget(gates[idx]) /\ gates[idx].name = "AND"
    /\ \E o \in SolveLogic(initial_witness, gates[idx]) : Iterate(gates[idx], o)

EvalXor ==
    /\ InLoop
    /\ IsGadget(gates[idx]) /\ gates[idx].name = "XOR"
    /\ \E o \in SolveLogic(initial_witness, gates[idx]) : Iterate(gates[idx], o)

EvalGadgetCall ==
    /\ InLoop
    /\ IsGadget(gates[idx]) /\ gates[idx].name \notin {"RANGE", "AND", "XOR"}
    /\ \E o \in SolveGadgetCall(initial_witness, gates[idx]) : Iterate(gates[idx], o)

EvalInvert ==
    /\ InLoop
    /\ IsDirective(gates[idx], "Invert")
    /\ \E o \in SolveInvert(initial_witness, gates[idx]) : Iterate(gates[idx], o)

EvalQuotient ==
    /\ InLoop
    /\ IsDirective(gates[idx], "Quotient")
    /\ \E o \in SolveQuotient(initial_witness, gates[idx]) : Iterate(gates[idx], o)

EvalTruncate ==
    /\ InLoop
    /\ IsDirective(gates[idx], "Truncate")
    /\ \E o \in SolveTruncate(initial_witness, gates[idx]) : Iterate(gates[idx], o)

EvalSplit ==
    /\ InLoop
    /\ IsDirective(gates[idx], "Split")
    /\ \E o \in SolveSplit(initial_witness, gates[idx]) : Iterate(gates[idx], o)

EvalToBytes ==
    /\ InLoop
    /\ IsDirective(gates[idx], "ToBytes")
    /\ \E o \in SolveToBytes(initial_witness, gates[idx]) : Iterate(gates[idx], o)

EvalOddrange ==
    /\ InLoop
    /\ IsDirective(gates[idx], "Oddrange")
    /\ \E o \in SolveOddrange(initial_witness, gates[idx]) : Iterate(gates[idx], o)

\* The recursion on an empty list: the unsolved gates are dropped.
NextPassGatesDropped(current, unsolved) == <<>>

\* The recursion on the unsolved gates in the opposite order.
NextPassGatesReversed(current, unsolved) == Reverse(unsolved)

\* The gate list of the next pass: self.solve(initial_witness, unsolved_gates).
NextPassGates(current, unsolved) == unsolved

AfterLoop == status = "Running" /\ gates # <<>> /\ idx > Len(gates)

\* self.solve(initial_witness, unsolved_gates): a new frame on unsolved_gates.
Recurse ==
    /\ AfterLoop
    /\ depth < StackLimit
    /\ gates' = NextPassGates(gates, unsolved_gates)
    /\ idx' = 1
    /\ unsolved_gates' = <<>>
    /\ depth' = depth + 1
    /\ UNCHANGED <<circuit, caller_witness, initial_witness, status, last, descriptor>>

\* The same call with the stack exhausted: the process aborts.
StackOverflow ==
    /\ AfterLoop
    /\ depth >= StackLimit
    /\ status' = "StackOverflow"
    /\ UNCHANGED <<circuit, caller_witness, initial_witness, gates, idx,
                   unsolved_gates, depth, last, descriptor>>

Next ==
    \/ ReturnResolved
    \/ EvalArithmetic
    \/ EvalRange
    \/ EvalAnd
    \/ EvalXor
    \/ EvalGadgetCall
    \/ EvalInvert
    \/ EvalQuotient
    \/ EvalTruncate
    \/ EvalSplit
    \/ EvalToBytes
    \/ EvalOddrange
    \/ Recurse
    \/ StackOverflow

Spec == Init /\ [][Next]_vars

(***************************************************************************)
(* solve as a function of its arguments: the set of ways the call on       *)
(* (initial_witness, gates) can end, each with the witness map it leaves   *)
(* and whether an insert replaced an assigned value by another one.        *)
(***************************************************************************)
\* Some insert of writes, applied in order from w, replaces a value.
RECURSIVE Replaces(_, _, _)
Replaces(w, writes, i) ==
    IF i > Len(writes) THEN FALSE
    ELSE LET k == writes[i][1]
             v == writes[i][2]
         IN  \/ (k \in DOMAIN w /\ w[k] # v)
             \/ Replaces(Insert(w, k, v), writes, i + 1)

\* The for loop from position i of the pass list gs of frame d, and the
\* recursion after it.
RECURSIVE SolveFrom(_, _, _, _, _, _)
SolveFrom(gs, i, w, unsolved, d, replaced) ==
    IF gs = <<>>
    THEN {[status |-> "Resolved", witness |-> w, replaced |-> replaced]}
    ELSE IF i > Len(gs)
    THEN IF d < StackLimit
         THEN SolveFrom(NextPassGates(gs, unsolved), 1, w, <<>>, d + 1, replaced)
         ELSE {[status |-> "StackOverflow", witness |-> w, replaced |-> replaced]}
    ELSE UNION {LET r == replaced \/ Replaces(w, o.writes, 1)
                IN  IF o.res = "Resolved"
                    THEN SolveFrom(gs, i + 1, o.w, unsolved, d, r)
                    ELSE IF o.res = "Skip"
                    THEN SolveFrom(gs, i + 1, o.w, Append(unsolved, gs[i]), d, r)
                    ELSE {[status |-> o.res, witness |-> o.w, replaced |-> r]} :
                    o \in SolveGate(w, gs[i])}

\* PartialWitnessGenerator::solve(initial_witness, gates)
solve(w, gs) == SolveFrom(gs, 1, w, <<>>, 1, FALSE)

(***************************************************************************)
(* Language and its CustomGate implementation.                             *)
(***************************************************************************)
\* enum Language { R1CS, PLONKCSat { width: usize } }
Languages ==
    {[tag |-> "R1CS"]} \cup {[tag |-> "PLONKCSat", width |-> n] : n \in 1 .. MaxWidth}

\* Opcode names passed to supports.
Opcodes == {"RANGE", "AND", "XOR", "SHA256"}

\* CustomGate::supports for Language
supports(language, opcode) ==
    CASE language.tag = "R1CS" -> FALSE
      [] language.tag = "PLONKCSat" -> TRUE

\* CustomGate::supports_gate for Language
supports_gate(language, gate) ==
    LET is_supported_gate ==
            CASE gate.kind = "GadgetCall" /\ gate.name = "RANGE" -> TRUE
              [] gate.kind = "GadgetCall" /\ gate.name = "AND" -> TRUE
              [] gate.kind = "GadgetCall" /\ gate.name = "XOR" -> TRUE
              [] OTHER -> FALSE
        is_r1cs ==
            CASE language.tag = "R1CS" -> TRUE
              [] language.tag = "PLONKCSat" -> FALSE
    IN  ~(is_supported_gate \/ is_r1cs)

\* A Language value held by a caller; solve is not running.
LanguageInit ==
    /\ descriptor \in {[call |-> "None", language |-> l] : l \in Languages}
    /\ circuit = <<>>
    /\ caller_witness = <<>>
    /\ initial_witness = <<>>
    /\ gates = <<>>
    /\ idx = 1
    /\ unsolved_gates = <<>>
    /\ depth = 0
    /\ status = "NotCalled"
    /\ last = [res |-> "None"]

\* language.supports(opcode)
Supports ==
    /\ status = "NotCalled"
    /\ \E opcode \in Opcodes :
           descriptor' = [call |-> "supports", language |-> descriptor.language,
                          opcode |-> opcode,
                          answer |-> supports(descriptor.language, opcode)]
    /\ UNCHANGED <<circuit, caller_witness, initial_witness, gates, idx,
                   unsolved_gates, depth, status, last>>

\* language.supports_gate(&gate)
SupportsGate ==
    /\ status = "NotCalled"
    /\ \E gate \in GateCatalogue :
           descriptor' = [call |-> "supports_gate", language |-> descriptor.language,
                          gate |-> gate,
                          answer |-> supports_gate(descriptor.language, gate)]
    /\ UNCHANGED <<circuit, caller_witness, initial_witness, gates, idx,
                   unsolved_gates, depth, status, last>>

LanguageNext ==
    \/ Supports
    \/ SupportsGate

LanguageSpec == LanguageInit /\ [][LanguageNext]_vars

(***************************************************************************)
(* Properties of solve.                                                    *)
(***************************************************************************)
Evaluated == last.res # "None"

\* C1: solve terminates on a stall: when a full pass over the gate list
\* resolved no gate (every gate was pushed as unsolved), the loop stops
\* instead of starting another pass and the status is Stalled, carrying the
\* unresolved gates.
C1_StallStopsTheLoop ==
    [][(AfterLoop /\ unsolved_gates = gates)
          => (status' = "Stalled" /\ unsolved_gates' = unsolved_gates
              /\ depth' = depth)]_vars

\* C2: the partial witness only grows: a key holding a value holds the same
\* value after every step of solve; no handler replaces an assigned value.
C2_AssignedValuesKept ==
    [][\A k \in DOMAIN initial_witness :
           k \in DOMAIN initial_witness' /\ initial_witness'[k] = initial_witness[k]]_vars

\* The state once the latest evaluation reported a hard failure: the status
\* is that failure, the for loop stands at the failing gate, the witness is
\* the one that evaluation left, changed from the witness before it only
\* where the failing gate itself had inserted.
C3_FailureState ==
    (Evaluated /\ last.res \in HardFailures)
        => /\ status = last.res
           /\ idx <= Len(gates) /\ gates[idx] = last.gate
           /\ initial_witness = last.after
           /\ \A k \in DOMAIN last.before :
                  k \in DOMAIN initial_witness
                  /\ (initial_witness[k] # last.before[k]
                          => \E i \in 1 .. Len(last.writes) : last.writes[i][1] = k)

\* C3: a hard failure (UnsatisfiedConstrain, UnsupportedOpcode, UnknownError)
\* reported by a gate is what solve returns, at once: no later gate of the
\* pass is evaluated, no later pass is started, and the witness is the one
\* mutated up to the failure (nothing rolled back, no further write).
C3_HardFailureReturnsAtOnce ==
    /\ []C3_FailureState
    /\ [][(status \in HardFailures) => (UNCHANGED vars)]_vars

\* A hard failure with a gate left after the failing one and a witness
\* already mutated by an earlier gate.
C3_Witness ==
    /\ status \in HardFailures
    /\ idx < Len(gates)
    /\ initial_witness # caller_witness

\* The witnesses an expression refers to.
ExprWitnesses(e) ==
    {e.linear_combinations[i][2] : i \in 1 .. Len(e.linear_combinations)}
        \cup {e.mul_terms[i][2] : i \in 1 .. Len(e.mul_terms)}
        \cup {e.mul_terms[i][3] : i \in 1 .. Len(e.mul_terms)}

\* The caller passed the Arithmetic gate ar over two witnesses, one of them
\* assigned, and the directive dr, which on the caller's witness assigns
\* the other one a value satisfying ar.
C4_Pair(ar, dr) ==
    /\ ar.kind = "Arithmetic"
    /\ dr.kind = "Directive"
    /\ \E x, y \in Witnesses :
          /\ x # y
          /\ ExprWitnesses(ar.arith) = {x, y}
          /\ x \in DOMAIN caller_witness
          /\ y \notin DOMAIN caller_witness
          /\ \A o \in SolveGate(caller_witness, dr) :
                /\ o.res = "Resolved"
                /\ y \in DOMAIN o.w
                /\ o.w[x] = caller_witness[x]
                /\ GetValue(ar.arith, o.w) = Some(0)

C4_Scenario ==
    /\ Len(circuit) = 2
    /\ \/ C4_Pair(circuit[1], circuit[2])
       \/ C4_Pair(circuit[2], circuit[1])

C4_Returned ==
    /\ Len(circuit) = 2
    /\ Evaluated
    /\ status = "Resolved"
    /\ gates = <<>> /\ unsolved_gates = <<>>
    /\ \A i \in 1 .. 2 :
          circuit[i].kind = "Arithmetic"
              => /\ ExprWitnesses(circuit[i].arith) \subseteq DOMAIN initial_witness
                 /\ GetValue(circuit[i].arith, initial_witness) = Some(0)
                 /\ last.gate = circuit[i] /\ last.res = "Resolved"

\* C4: with an Arithmetic gate over two witnesses, one assigned, and a
\* directive producing the other with a satisfying value, in either order,
\* solve never fails, always has a next step until it returns, and returns
\* Resolved within three frames with both witnesses assigned, no gate left
\* unresolved, and the Arithmetic gate (deferred when it comes first)
\* evaluated again and resolved.
C4_DeferredGateResolves ==
    C4_Scenario
        => /\ status \in {"Running", "Resolved"}
           /\ depth <= 3
           /\ (status = "Running" => ENABLED Next)
           /\ (status = "Resolved" => C4_Returned)

\* The Arithmetic gate came first, was deferred, and resolved in the second
\* pass.
C4_Witness ==
    /\ C4_Scenario
    /\ circuit[1].kind = "Arithmetic"
    /\ C4_Returned
    /\ depth = 3

\* Only Arithmetic gates, each evaluating to zero under the caller's witness.
C5_Satisfied ==
    \A i \in 1 .. Len(circuit) :
        /\ circuit[i].kind = "Arithmetic"
        /\ GetValue(circuit[i].arith, caller_witness) = Some(0)

\* C5: for a list of Arithmetic gates all satisfied by a complete witness,
\* solve returns Resolved (one pass, no gate deferred, no other status) and
\* the witness map stays identical to the caller's.
C5_SatisfiedCircuitUnchanged ==
    C5_Satisfied
        => /\ initial_witness = caller_witness
           /\ status \in {"Running", "Resolved"}
           /\ unsolved_gates = <<>>
           /\ depth <= 2
           /\ (depth = 2 => gates = <<>>)

C5_Witness ==
    /\ C5_Satisfied
    /\ Len(circuit) = 2 /\ circuit[1] # circuit[2]
    /\ status = "Resolved"

NativeOpcodes == {"RANGE", "AND", "XOR"}

\* C6: solve_gadget_call is invoked only for a GadgetCall whose opcode is
\* not RANGE, AND or XOR and only with every input witness assigned; with an
\* input unassigned the gate is deferred, the backend not called.
C6_BackendCalledWithInputsAssigned ==
    Evaluated =>
        /\ last.backend
              => /\ IsGadget(last.gate) /\ last.gate.name \notin NativeOpcodes
                 /\ \A i \in 1 .. Len(last.gate.inputs) :
                        last.gate.inputs[i].witness \in DOMAIN last.before
        /\ (/\ IsGadget(last.gate) /\ last.gate.name \notin NativeOpcodes
            /\ \E i \in 1 .. Len(last.gate.inputs) :
                   last.gate.inputs[i].witness \notin DOMAIN last.before)
              => /\ ~last.backend
                 /\ last.res = "Skip"
                 /\ last.after = last.before

\* The backend is called in the second pass for a gate deferred in the first.
C6_Witness ==
    /\ Evaluated
    /\ last.backend
    /\ depth = 2
    /\ circuit[1] = last.gate

\* C7: a RANGE gate with one input (w, n bits) and w assigned to v is
\* classified resolved iff v has at most n bits (v < 2^n); otherwise solve
\* returns UnsatisfiedConstrain.
C7_RangeResolvesIffFits ==
    (/\ Evaluated
     /\ IsGadget(last.gate) /\ last.gate.name = "RANGE"
     /\ Len(last.gate.inputs) = 1
     /\ last.gate.inputs[1].witness \in DOMAIN last.before)
        => LET v == last.before[last.gate.inputs[1].witness]
               n == last.gate.inputs[1].num_bits
           IN  /\ (last.res = "Resolved") <=> (v < 2 ^ n)
               /\ (v >= 2 ^ n)
                     => (last.res = "UnsatisfiedConstrain"
                         /\ status = "UnsatisfiedConstrain")

\* A value of exactly n bits resolved.
C7_Witness ==
    /\ Evaluated
    /\ IsGadget(last.gate) /\ last.gate.name = "RANGE"
    /\ Len(last.gate.inputs) = 1
    /\ last.gate.inputs[1].witness \in DOMAIN last.before
    /\ last.before[last.gate.inputs[1].witness] = 2 ^ last.gate.inputs[1].num_bits - 1
    /\ last.res = "Resolved"

\* The latest evaluation was a Split or ToBytes directive with its input
\* evaluable.
C8_Decomposed ==
    /\ Evaluated
    /\ (IsDirective(last.gate, "Split") \/ IsDirective(last.gate, "ToBytes"))
    /\ GetValue(last.gate.a, last.before) # None

\* The number of outputs of the directive, and output j (from 0) as the
\* claim computes it: bit j, or byte j, of the input value.
C8_Size == IF IsDirective(last.gate, "Split") THEN last.gate.bit_size
           ELSE last.gate.byte_size

C8_Digit(j) ==
    LET a == GetValue(last.gate.a, last.before)[1]
        base == IF IsDirective(last.gate, "Split") THEN 2 ELSE 256
    IN  (a \div (base ^ j)) % base

\* C8: Split and ToBytes are idempotent with conflict checking.  A resolved
\* evaluation leaves every output holding its bit/byte and the input value
\* as it was; an evaluation that finds every output holding its bit/byte
\* (as the first evaluation left them) resolves and changes nothing; an
\* evaluation that finds an output holding another value returns
\* UnsatisfiedConstrain.
C8_SplitToBytesIdempotent ==
    C8_Decomposed =>
        /\ last.res = "Resolved"
              => /\ \A j \in 0 .. C8_Size - 1 :
                        /\ last.gate.b[j + 1] \in DOMAIN last.after
                        /\ last.after[last.gate.b[j + 1]] = C8_Digit(j)
                 /\ GetValue(last.gate.a, last.after) = GetValue(last.gate.a, last.before)
        /\ (\A j \in 0 .. C8_Size - 1 :
                /\ last.gate.b[j + 1] \in DOMAIN last.before
                /\ last.before[last.gate.b[j + 1]] = C8_Digit(j))
              => /\ last.res = "Resolved"
                 /\ last.after = last.before
                 /\ last.writes = <<>>
        /\ (\E j \in 0 .. C8_Size - 1 :
                /\ last.gate.b[j + 1] \in DOMAIN last.before
                /\ last.before[last.gate.b[j + 1]] # C8_Digit(j))
              => /\ last.res = "UnsatisfiedConstrain"
                 /\ status = "UnsatisfiedConstrain"

\* The same directive twice in the list: the first evaluation wrote the
\* outputs, the second resolved without a write.
C8_Witness ==
    /\ C8_Decomposed
    /\ circuit = <<last.gate, last.gate>>
    /\ depth = 1 /\ idx = 3
    /\ \A j \in 0 .. C8_Size - 1 : last.gate.b[j + 1] \notin DOMAIN caller_witness
    /\ last.res = "Resolved"
    /\ last.writes = <<>>

C9_Resolved ==
    /\ Evaluated
    /\ IsDirective(last.gate, "ToBytes")
    /\ last.res = "Resolved"

\* C9: the outputs of ToBytes are assigned most-significant byte first: b[0]
\* holds the most significant of the byte_size decomposed bytes of a and
\* b[byte_size-1] the least significant.
C9_MostSignificantFirst ==
    C9_Resolved =>
        LET a == GetValue(last.gate.a, last.before)[1]
        IN  \A i \in 0 .. last.gate.byte_size - 1 :
                last.after[last.gate.b[i + 1]]
                    = (a \div (256 ^ (last.gate.byte_size - 1 - i))) % 256

\* C9 as amended: b[i] holds byte i of a counted from the least significant:
\* b[0] the least significant byte, b[byte_size-1] the most significant of
\* the byte_size decomposed bytes.
C9_LeastSignificantFirst ==
    C9_Resolved =>
        LET a == GetValue(last.gate.a, last.before)[1]
        IN  \A i \in 0 .. last.gate.byte_size - 1 :
                last.after[last.gate.b[i + 1]] = (a \div (256 ^ i)) % 256

\* ToBytes wrote two different bytes.
C9_Witness ==
    /\ C9_Resolved
    /\ Len(last.writes) = 2
    /\ last.writes[1][2] # last.writes[2][2]
    /\ last.writes[2][2] # 0

\* C10: Truncate with bit_size = k on an assigned a writes b and then c with
\* b = a mod 2^k, b < 2^k and c * 2^k + b = a.
C10_TruncateRoundTrip ==
    (Evaluated /\ IsDirective(last.gate, "Truncate") /\ last.gate.a \in DOMAIN last.before)
        => LET a == last.before[last.gate.a]
               k == last.gate.bit_size
           IN  /\ last.res = "Resolved"
               /\ Len(last.writes) = 2
               /\ last.writes[1][1] = last.gate.b
               /\ last.writes[2][1] = last.gate.c
               /\ LET b == last.writes[1][2]
                      c == last.writes[2][2]
                  IN  /\ b = a % (2 ^ k)
                      /\ b < 2 ^ k
                      /\ c * (2 ^ k) + b = a

\* A truncation with a non-zero low part and a non-zero high part.
C10_Witness ==
    /\ Evaluated
    /\ IsDirective(last.gate, "Truncate")
    /\ last.res = "Resolved"
    /\ last.writes[1][2] # 0
    /\ last.writes[2][2] # 0
    /\ last.writes[2][2] # last.before[last.gate.a]

\* C11: Oddrange with any bit_size, 0 included, on an assigned a: when
\* a >= 2^bit_size it returns UnsatisfiedConstrain and writes neither b nor r;
\* when a < 2^bit_size it writes b in {0, 1}, the bit of a at position
\* bit_size - 1, and then r, the low bits, with b * 2^(bit_size - 1) + r = a.
C11_OddrangeSplitsTopBit ==
    (Evaluated /\ IsDirective(last.gate, "Oddrange") /\ last.gate.a \in DOMAIN last.before)
        => LET a == last.before[last.gate.a]
               bit_size == last.gate.bit_size
           IN  IF a >= 2 ^ bit_size
               THEN /\ last.res = "UnsatisfiedConstrain"
                    /\ last.writes = <<>>
                    /\ last.after = last.before
               ELSE /\ last.res = "Resolved"
                    /\ bit_size >= 1
                    /\ Len(last.writes) = 2
                    /\ last.writes[1][1] = last.gate.b
                    /\ last.writes[2][1] = last.gate.r
                    /\ LET b == last.writes[1][2]
                           r == last.writes[2][2]
                       IN  /\ b \in {0, 1}
                           /\ b = Bit(a, bit_size - 1)
                           /\ r < 2 ^ (bit_size - 1)
                           /\ b * (2 ^ (bit_size - 1)) + r = a

\* The same statement for the bit sizes at which bit_size - 1 does not
\* underflow.
C11_FromOneBit ==
    (Evaluated /\ IsDirective(last.gate, "Oddrange") /\ last.gate.bit_size >= 1)
        => C11_OddrangeSplitsTopBit

\* The predicate of a Quotient directive: Expression::one() when absent.
C12_Predicate(d) == IF d.predicate = None THEN ExpressionOne ELSE d.predicate[1]

\* The operands of a Quotient directive are evaluable under w.
C12_Evaluable(d, w) ==
    /\ GetValue(d.a, w) # None
    /\ GetValue(d.b, w) # None
    /\ GetValue(C12_Predicate(d), w) # None

\* C12: Quotient with a, b and the predicate (the constant 1 when absent)
\* evaluable writes q = 0 and r = 0 when the predicate is zero, and otherwise,
\* for every a and b, b = 0 included, completes with q = a div b and
\* r = a mod b, so that q * b + r = a; when a, b or the predicate is not
\* evaluable the gate is deferred.
C12_QuotientCompletes ==
    (Evaluated /\ IsDirective(last.gate, "Quotient"))
        => LET d == last.gate
               w == last.before
           IN  IF ~C12_Evaluable(d, w)
               THEN last.res = "Skip"
               ELSE LET a == GetValue(d.a, w)[1]
                        b == GetValue(d.b, w)[1]
                        pred == GetValue(C12_Predicate(d), w)[1]
                    IN  /\ last.res = "Resolved"
                        /\ Len(last.writes) = 2
                        /\ last.writes[1][1] = d.q
                        /\ last.writes[2][1] = d.r
                        /\ LET q == last.writes[1][2]
                               r == last.writes[2][2]
                           IN  IF pred = 0
                               THEN q = 0 /\ r = 0
                               ELSE /\ q * b + r = a
                                    /\ b # 0 => (q = a \div b /\ r = a % b)

\* The same statement away from a zero divisor under a non-zero predicate.
C12_NonZeroDivisor ==
    (/\ Evaluated
     /\ IsDirective(last.gate, "Quotient")
     /\ C12_Evaluable(last.gate, last.before)
     /\ GetValue(last.gate.b, last.before) = Some(0)
     /\ GetValue(C12_Predicate(last.gate), last.before) # Some(0))
    \/ C12_QuotientCompletes

\* The latest evaluation is an AND or XOR gadget call with both inputs
\* assigned and the output already assigned to a value other than the result.
C13_Conflict ==
    /\ Evaluated
    /\ IsGadget(last.gate)
    /\ last.gate.name \in {"AND", "XOR"}
    /\ \A i \in 1 .. 2 : last.gate.inputs[i].witness \in DOMAIN last.before
    /\ last.gate.outputs[1] \in DOMAIN last.before
    /\ LET l == last.before[last.gate.inputs[1].witness]
           r == last.before[last.gate.inputs[2].witness]
           num_bits == last.gate.inputs[1].num_bits
       IN  last.before[last.gate.outputs[1]] #
               (IF last.gate.name = "XOR" THEN BitwiseXor(l, r, num_bits)
                ELSE BitwiseAnd(l, r, num_bits))

\* C13: an AND or XOR gadget call whose output is already assigned to a value
\* other than the result makes solve return UnsatisfiedConstrain at once; the
\* gate is not pushed as unsolved and retried.
C13_LogicConflictFails ==
    C13_Conflict => (last.res = "UnsatisfiedConstrain" /\ status = "UnsatisfiedConstrain")

\* What the arms do instead: the negated bool of the solver is the unsolved
\* flag, so the gate ends as pushed or as resolved, never as a failure.
C13_LogicNeverFails ==
    (Evaluated /\ IsGadget(last.gate) /\ last.gate.name \in {"AND", "XOR"})
        => last.res \in {"Skip", "Resolved"}

\* The gate is a RANGE, AND or XOR gadget call.
C14_NativeGadget(gate) == IsGadget(gate) /\ gate.name \in {"RANGE", "AND", "XOR"}

\* C14: supports_gate under PLONKCSat is true for RANGE, AND and XOR gadget
\* calls and false for every other gadget call, Arithmetic gate and
\* Directive; under R1CS it is true for Arithmetic gates and false for every
\* other gate.
C14_SupportsGateAsNamed ==
    descriptor.call = "supports_gate"
        => descriptor.answer =
               (IF descriptor.language.tag = "PLONKCSat"
                THEN C14_NativeGadget(descriptor.gate)
                ELSE descriptor.gate.kind = "Arithmetic")

\* What the method returns: true exactly under PLONKCSat for a gate that is
\* not one of the three gadget calls.
C14_SupportsGateNegated ==
    descriptor.call = "supports_gate"
        => descriptor.answer =
               (descriptor.language.tag = "PLONKCSat" /\ ~C14_NativeGadget(descriptor.gate))

\* s is t with some elements left out, the others in the order of t.
RECURSIVE IsSubsequence(_, _)
IsSubsequence(s, t) ==
    IF s = <<>> THEN TRUE
    ELSE IF t = <<>> THEN FALSE
    ELSE IF Head(s) = Head(t) THEN IsSubsequence(Tail(s), Tail(t))
    ELSE IsSubsequence(s, Tail(t))

\* The gates not classified as resolved so far: those pushed in this pass,
\* then those the loop has still to evaluate.
C15_Pending == unsolved_gates \o [j \in 1 .. Len(gates) + 1 - idx |-> gates[idx + j - 1]]

\* s without its element at position i.
C15_Without(s, i) == [j \in 1 .. Len(s) - 1 |-> IF j < i THEN s[j] ELSE s[j + 1]]

\* One step of solve keeps the unresolved gates: an evaluation that resolves
\* the gate takes exactly that gate out, any other evaluation leaves the list
\* as it is, the pushed gate behind those pushed before; the recursion hands
\* over exactly the pushed gates, and no pass has a longer list than the one
\* before.
C15_Step ==
    /\ Len(gates') <= Len(gates)
    /\ (depth' # depth) => (gates' = unsolved_gates /\ C15_Pending' = C15_Pending)
    /\ (InLoop /\ depth' = depth) =>
           IF last'.res = "Resolved"
           THEN /\ C15_Pending' = C15_Without(C15_Pending, Len(unsolved_gates) + 1)
                /\ unsolved_gates' = unsolved_gates
           ELSE /\ C15_Pending' = C15_Pending
                /\ last'.res = "Skip" => unsolved_gates' = Append(unsolved_gates, gates[idx])

\* C15: the list handed to the next pass is exactly the gates of this pass
\* that reported not yet solvable, in their order; over the passes the
\* unresolved list is an order-preserving subsequence of the caller's list,
\* never grows, and a gate classified as resolved leaves it for good.
C15_UnsolvedSubsequence ==
    /\ [](IsSubsequence(gates, circuit) /\ IsSubsequence(C15_Pending, gates))
    /\ [][C15_Step]_vars

\* A second pass on two different gates, both pushed by the first.
C15_Witness ==
    /\ depth = 2
    /\ Len(gates) = 2
    /\ gates[1] # gates[2]
    /\ gates = circuit
    /\ idx = 1

\* The orders in which the gates of s can be listed.
C16_Orders(s) ==
    {[i \in 1 .. Len(s) |-> s[p[i]]] :
         p \in {f \in [1 .. Len(s) -> 1 .. Len(s)] :
                    \A i, j \in 1 .. Len(s) : f[i] = f[j] => i = j}}

\* The terminal statuses told apart: Resolved, stalled, hard failure, panic.
C16_Class(st) == IF st \in HardFailures THEN "HardFailure" ELSE st

\* The run has ended as the function solve says it can.
C16_RunIsSolve ==
    status # "Running" =>
        \E r \in solve(caller_witness, circuit) :
            r.status = status /\ r.witness = initial_witness

\* C16: the order of the gates has no semantic significance: a run that
\* ended has, on every reordering of the caller's list from the same initial
\* witness, a run ending with the same kind of status and, when Resolved,
\* with the same final witness.
C16_OrderIrrelevant ==
    status # "Running" =>
        \A p \in C16_Orders(circuit) :
            \E r \in solve(caller_witness, p) :
                /\ C16_Class(r.status) = C16_Class(status)
                /\ status = "Resolved" => r.witness = initial_witness

\* A way of returning in which no insert replaced an assigned value by
\* another one: no panic and no recursion without end either.
C16_Clean(r) == ~r.replaced /\ r.status \notin {"Panic", "StackOverflow"}

\* The same statement over the lists that, in the order run and in the
\* reordering, end in no other way than that.
C16_CleanOrderIrrelevant ==
    (status # "Running" /\ \A r \in solve(caller_witness, circuit) : C16_Clean(r)) =>
        \A p \in C16_Orders(circuit) :
            (\A q \in solve(caller_witness, p) : C16_Clean(q)) =>
                \E q \in solve(caller_witness, p) :
                    /\ C16_Class(q.status) = C16_Class(status)
                    /\ status = "Resolved" => q.witness = initial_witness

\* The loop is at a RANGE gadget call.
C17_AtRange == InLoop /\ IsGadget(gates[idx]) /\ gates[idx].name = "RANGE"

\* C17: the RANGE arm never writes the witness map: whether the gate is
\* resolved, pushed as unsolved, or ends solve with UnsatisfiedConstrain or
\* UnknownError, the map after the evaluation is the map before it.
C17_RangeNeverWrites ==
    [][C17_AtRange => (/\ initial_witness' = initial_witness
                       /\ last'.writes = <<>>
                       /\ last'.after = last'.before
                       /\ last'.res \in {"Resolved", "Skip", "UnsatisfiedConstrain",
                                         "UnknownError"})]_vars

\* A RANGE gate pushed as unsolved, its input unassigned before and after.
C17_Witness ==
    /\ Evaluated
    /\ IsGadget(last.gate) /\ last.gate.name = "RANGE"
    /\ last.res = "Skip"
    /\ last.gate.inputs[1].witness \notin DOMAIN initial_witness
    /\ unsolved_gates # <<>>

\* The loop is at a RANGE gadget call whose number of inputs is not the
\* defined input size.
C18_AtWrongArity == C17_AtRange /\ Len(gates[idx].inputs) # RangeInputSize

\* C18: a RANGE gadget call with a number of inputs other than 1 makes solve
\* return UnknownError as soon as the loop reaches it, whether or not its
\* inputs are assigned, without calling the backend and without writing; it
\* is never pushed as unsolved.
C18_WrongArityFailsAtOnce ==
    [][C18_AtWrongArity => (/\ status' = "UnknownError"
                            /\ last'.res = "UnknownError"
                            /\ ~last'.backend
                            /\ unsolved_gates' = unsolved_gates
                            /\ initial_witness' = initial_witness)]_vars

\* UnknownError from a RANGE gate with two inputs, neither assigned.
C18_Witness ==
    /\ status = "UnknownError"
    /\ IsGadget(last.gate) /\ last.gate.name = "RANGE"
    /\ Len(last.gate.inputs) = 2
    /\ \A i \in 1 .. 2 : last.gate.inputs[i].witness \notin DOMAIN last.before

\* The gate, if an Arithmetic gate, evaluates to zero under w, and if a
\* RANGE gate, has its input assigned within its bound under w.
C19_Holds(gate, w) ==
    /\ gate.kind = "Arithmetic" => GetValue(gate.arith, w) = Some(0)
    /\ (IsGadget(gate) /\ gate.name = "RANGE") =>
           /\ Len(gate.inputs) = RangeInputSize
           /\ gate.inputs[1].witness \in DOMAIN w
           /\ w[gate.inputs[1].witness] < 2 ^ gate.inputs[1].num_bits

\* C19: whenever solve returns Resolved, every Arithmetic gate of the
\* caller's list evaluates to zero and every RANGE gate's input is within its
\* bound under the final witness map.
C19_ResolvedSatisfiesAll ==
    status = "Resolved" =>
        \A i \in 1 .. Len(circuit) : C19_Holds(circuit[i], initial_witness)

\* The same statement over the calls in which no insert replaces an assigned
\* value by another one.
C19_WithoutReplacement ==
    (status = "Resolved" /\ \A r \in solve(caller_witness, circuit) : ~r.replaced)
        => \A i \in 1 .. Len(circuit) : C19_Holds(circuit[i], initial_witness)

\* The gate is a directive or a gadget call handed to the backend.
C20_Deferrable(gate) ==
    \/ gate.kind = "Directive"
    \/ (IsGadget(gate) /\ gate.name \notin {"RANGE", "AND", "XOR"})

\* An input of the gate (for Quotient: a, b or the predicate) is not
\* evaluable under w.
C20_InputMissing(gate, w) ==
    CASE IsGadget(gate) ->
             \E i \in 1 .. Len(gate.inputs) : gate.inputs[i].witness \notin DOMAIN w
      [] IsDirective(gate, "Invert") -> gate.x \notin DOMAIN w
      [] IsDirective(gate, "Quotient") -> ~C12_Evaluable(gate, w)
      [] IsDirective(gate, "Truncate") -> gate.a \notin DOMAIN w
      [] IsDirective(gate, "Split") -> GetValue(gate.a, w) = None
      [] IsDirective(gate, "ToBytes") -> GetValue(gate.a, w) = None
      [] IsDirective(gate, "Oddrange") -> gate.a \notin DOMAIN w
      [] OTHER -> FALSE

\* C20: deferring a gate has no effect on the witness map: a directive or a
\* backend gadget call evaluated with an input (or a Quotient predicate) that
\* is not evaluable is pushed to the unsolved list, the loop goes on, and the
\* witness map is left as it was.
C20_DeferralWritesNothing ==
    [][(/\ InLoop
        /\ C20_Deferrable(gates[idx])
        /\ C20_InputMissing(gates[idx], initial_witness))
           => (/\ unsolved_gates' = Append(unsolved_gates, gates[idx])
               /\ initial_witness' = initial_witness
               /\ last'.writes = <<>>
               /\ ~last'.backend
               /\ status' = "Running")]_vars

\* A Quotient pushed as unsolved with a and b evaluable and the predicate
\* not.
C20_Witness ==
    /\ Evaluated
    /\ IsDirective(last.gate, "Quotient")
    /\ last.res = "Skip"
    /\ GetValue(last.gate.a, last.before) # None
    /\ GetValue(last.gate.b, last.before) # None
    /\ GetValue(C12_Predicate(last.gate), last.before) = None
    /\ initial_witness = last.before

=============================================================================
